---- MODULE Spec2Model ----
(***************************************************************************)
(* The command handlers of the file-explorer panel (fast_fm/commands.py)   *)
(* as a state machine over a small filesystem.                             *)
(*                                                                         *)
(* A path is the sequence of its segments: <<>> is "/", <<"r">> is "/r",   *)
(* <<"r","a">> is "/r/a".  The filesystem fs maps every existing path      *)
(* below "/" to "file" or "dir"; "/" itself always exists.  The variable   *)
(* state is the snapshot the plugin currently holds; last records what the *)
(* most recent handler call did (its arguments to the collaborators and    *)
(* how it ended).  pending holds the handler call that is suspended at an   *)
(* await (at most one; empty when none is).                                *)
(*                                                                         *)
(* The handlers read the node under the cursor through _index; the model   *)
(* uses the value the coroutine _index resolves to (Optional[Node]).       *)
(***************************************************************************)
EXTENDS Naturals, Sequences, FiniteSets, TLC

VARIABLES fs, state, last, steps, pending

vars == <<fs, state, last, steps, pending>>

\* ------------------------------------------------------------- bounds
\* Number of commands a behaviour issues.
MaxSteps == 2
\* Longest path (in segments, the root's included) the commands may create.
MaxDepth == 4
\* Largest selection c_select may build.
MaxSel == 3

\* ------------------------------------------------------------- names
\* Entry names in the order the tree is sorted by; ".h" matches the hidden
\* pattern.
SortedNames == <<".h", "a", "b", "n", "x">>

Hidden(name) == name = ".h"

\* The directory the panel shows.
Root == <<"r">>

\* ------------------------------------------------------------- os.path
dirname(p) == IF Len(p) = 0 THEN p ELSE SubSeq(p, 1, Len(p) - 1)

basename(p) == IF Len(p) = 0 THEN "" ELSE p[Len(p)]

\* join with a relative second argument
join(parent, child) == parent \o child

exists(f, p) == p = <<>> \/ p \in DOMAIN f

\* ------------------------------------------------------------- fs helpers
is_parent(parent, child) ==
    /\ Len(parent) < Len(child)
    /\ SubSeq(child, 1, Len(parent)) = parent

ancestors(p) == {SubSeq(p, 1, k) : k \in 0 .. (Len(p) - 1)}

unify(paths) == {p \in paths : ~ \E q \in paths : is_parent(q, p)}

Subtree(f, p) == {q \in DOMAIN f : q = p \/ is_parent(p, q)}

Restrict(f, S) == [x \in S |-> f[x]]

IsDirOnDisk(f, p) == p = <<>> \/ (p \in DOMAIN f /\ f[p] = "dir")

\* q, a path at or below src, carried over to the same place below dst
Rebase(q, src, dst) == dst \o SubSeq(q, Len(src) + 1, Len(q))

\* the subtree of src written at dst (a file at dst is overwritten)
CopyTo(f, src, dst) ==
    LET made == {Rebase(q, src, dst) : q \in Subtree(f, src)}
        from(x) == src \o SubSeq(x, Len(dst) + 1, Len(x))
    IN  [x \in DOMAIN f \cup made |-> IF x \in made THEN f[from(x)] ELSE f[x]]

RemoveTree(f, p) == Restrict(f, DOMAIN f \ Subtree(f, p))

\* os.makedirs(p, exist_ok=True): possible when no segment on the way is a file
CanMakeDirs(f, p) ==
    \A a \in (ancestors(p) \cup {p}) : a \in DOMAIN f => f[a] = "dir"

MakeDirs(f, p) ==
    LET add == {a \in (ancestors(p) \cup {p}) : a # <<>> /\ a \notin DOMAIN f}
    IN  [x \in DOMAIN f \cup add |-> IF x \in add THEN "dir" ELSE f[x]]

\* Whether moving or copying src to dst can succeed on the filesystem f:
\* the source is there, the destination is not inside the source, its parent
\* is a directory, and an existing destination is a file overwritten by a file.
CanTransfer(f, src, dst) ==
    /\ src \in DOMAIN f
    /\ dst # src
    /\ ~ is_parent(src, dst)
    /\ IsDirOnDisk(f, dirname(dst))
    /\ dst \in DOMAIN f => (f[src] = "file" /\ f[dst] = "file")

cut(f, src, dst) == RemoveTree(CopyTo(f, src, dst), src)

copy(f, src, dst) == CopyTo(f, src, dst)

\* new(name): the missing directories on the way, then the entry itself
CanNew(f, name) == CanMakeDirs(f, dirname(name)) /\ name \notin DOMAIN f

new(f, name, kind) ==
    LET g == MakeDirs(f, dirname(name))
    IN  [x \in DOMAIN g \cup {name} |-> IF x = name THEN kind ELSE g[x]]

\* rename(src, dst): the missing directories on the way, then os.rename
CanRename(f, src, dst) ==
    /\ CanMakeDirs(f, dirname(dst))
    /\ CanTransfer(MakeDirs(f, dirname(dst)), src, dst)

rename(f, src, dst) == cut(MakeDirs(f, dirname(dst)), src, dst)

\* the longest path at or below p, counted from p
Height(f, p) ==
    LET ls == {Len(q) - Len(p) : q \in Subtree(f, p)}
    IN  IF ls = {} THEN 0 ELSE CHOOSE h \in ls : \A k \in ls : k <= h

\* ------------------------------------------------------------- tree state
\* A Node is [path, mode]; None stands for "no node".
None == [path |-> <<>>, mode |-> "none"]

is_dir(node) == node.mode = "dir"

\* load: the entries listed below p, descending into the listed directories
\* that are expanded.  A path that is gone or is no directory lists nothing.
RECURSIVE LoadSub(_, _, _)
LoadSub(f, idx, p) ==
    LET kids == {q \in DOMAIN f : Len(q) = Len(p) + 1 /\ dirname(q) = p}
        open == {k \in kids : k \in idx /\ f[k] = "dir"}
    IN  IF IsDirOnDisk(f, p)
        THEN kids \cup UNION {LoadSub(f, idx, c) : c \in open}
        ELSE {}

\* refresh: the cached tree root (a map from cached path to mode) with the
\* subtree below every invalidated cached directory rebuilt from disk, and
\* every other cached node reused.
refresh(root, paths, idx, f) ==
    LET targets == unify({p \in paths : p \in DOMAIN root /\ root[p] = "dir"})
        keep == {q \in DOMAIN root : ~ \E p \in targets : is_parent(p, q)}
        loaded == UNION {LoadSub(f, idx, p) : p \in targets}
    IN  [x \in keep \cup loaded |-> IF x \in loaded THEN f[x] ELSE root[x]]

\* render: the cached tree depth first, a directory's entries by name,
\* descending into a directory iff it is expanded, hidden names dropped unless
\* show_hidden.  v holds the root, index and show_hidden to render with.
RECURSIVE Walk(_, _), WalkKids(_, _, _)
Walk(v, p) ==
    <<p>> \o (IF p \in v.index /\ v.root[p] = "dir"
              THEN WalkKids(v, p, 1)
              ELSE <<>>)

WalkKids(v, p, i) ==
    IF i > Len(SortedNames) THEN <<>>
    ELSE LET c == p \o <<SortedNames[i]>>
         IN  (IF c \in DOMAIN v.root /\ (v.show_hidden \/ ~ Hidden(SortedNames[i]))
              THEN Walk(v, c)
              ELSE <<>>) \o WalkKids(v, p, i + 1)

render(root, idx, show_hidden) ==
    Walk([root |-> root, index |-> idx, show_hidden |-> show_hidden], Root)

\* forward(state, settings, **delta): delta is a record holding the keywords
\* given; an omitted keyword keeps the snapshot's value.  The new snapshot
\* carries its rendering (state.rendered), one path per line.
forward(st, f, delta) ==
    LET idx == IF "index" \in DOMAIN delta THEN delta.index ELSE st.index
        root == IF "paths" \in DOMAIN delta
                THEN refresh(st.root, delta.paths, idx, f)
                ELSE st.root
        show_hidden == IF "show_hidden" \in DOMAIN delta
                       THEN delta.show_hidden ELSE st.show_hidden
    IN  [root |-> root,
         index |-> idx,
         selection |-> IF "selection" \in DOMAIN delta
                       THEN delta.selection ELSE st.selection,
         show_hidden |-> show_hidden,
         follow |-> IF "follow" \in DOMAIN delta
                    THEN delta.follow ELSE st.follow,
         rendered |-> render(root, idx, show_hidden)]

\* index(state, row): the node at a zero-based row, or None out of range
index(st, row) ==
    LET flat == st.rendered
    IN  IF row + 1 \in 1 .. Len(flat)
        THEN [path |-> flat[row + 1], mode |-> st.root[flat[row + 1]]]
        ELSE None

\* the rows the cursor can be on: every rendered row, and one past the end
Rows(st) == 0 .. Len(st.rendered)

\* _index(nvim, state): the node under the cursor
_index(st, row) == index(st, row)

\* ------------------------------------------------------------- inputs
\* What the user may type at the c_new prompt: a path relative to the parent,
\* naming a directory (trailing separator) or a file.
NewInputs ==
    {[child |-> <<"x">>, kind |-> "dir"], [child |-> <<"n", "x">>, kind |-> "file"]}

\* What the user may type at the c_rename prompt: a path relative to the root.
RenameInputs == {<<"a">>, <<"n">>, <<"b", "n">>}

\* The answers of the confirm dialog: 1 Yes, 2 No, 0 dismissed.
Answers == {0, 1, 2}

\* ------------------------------------------------------------- record of a call
\* What a handler call did: the node it resolved, what it printed, what it
\* asked, the filesystem actions that completed, whether one raised and
\* whether the error reached the caller, whether it built a new snapshot with
\* forward and with which invalidation set, and what it gave kill_buffers;
\* rows are the rows c_select looked up, hit the items of a batch whose
\* destination existed when their action was called, awaited tells that the
\* call was suspended at an await and resumed, and events lists, in program
\* order, what the call did from forward on, "return" included.
Call(cmd, node) ==
    [cmd |-> cmd, node |-> node, target |-> <<>>, sel |-> {},
     printed |-> "", conflicts |-> {},
     prompted |-> FALSE, ans |-> 0,
     batch |-> {}, applied |-> {}, removed |-> {},
     action_raised |-> FALSE, propagated |-> FALSE,
     forwarded |-> FALSE, paths |-> {},
     kill_called |-> FALSE, killed |-> {},
     rows |-> {}, hit |-> {}, awaited |-> FALSE, events |-> <<>>]

\* A return statement inside a finally block discards the exception in
\* flight: the handler returns normally.
ReturnInFinally(raised) == FALSE

\* The finally block of c_rename, c_delete and _operation, statement by
\* statement: forward builds the new snapshot, _redraw draws it,
\* kill_buffers is called, and only then the snapshot is returned to the
\* caller, which makes it the current one.
FinallyBlock == <<"forward", "_redraw", "kill_buffers", "return">>

SymDiff(A, B) == (A \ B) \cup (B \ A)

\* ------------------------------------------------------------- Init
InitFs ==
    (Root :> "dir")
    @@ (<<"r", ".h">> :> "file")
    @@ (<<"r", "a">> :> "dir")
    @@ (<<"r", "a", "x">> :> "file")
    @@ (<<"r", "b">> :> "dir")
    @@ (<<"r", "b", "x">> :> "file")

\* A snapshot of a session under way: the tree expanded as far as idx says,
\* sel selected, hidden entries not shown.
InitState(idx, sel) ==
    LET root == refresh(Root :> "dir", {Root}, idx, InitFs)
    IN  [root |-> root,
         index |-> idx,
         selection |-> sel,
         show_hidden |-> FALSE,
         follow |-> FALSE,
         rendered |-> render(root, idx, FALSE)]

\* The expansion sets and the selections a session starts the run with; a
\* selection is made of rows that are on screen.
InitIndexes == {{Root}, {Root, <<"r", "a">>, <<"r", "b">>}}

InitSelections ==
    {{},
     {<<"r", "a">>},
     {<<"r", "a", "x">>},
     {<<"r", "a">>, <<"r", "b">>},
     {<<"r", "a">>, <<"r", "a", "x">>},
     {<<"r", "a", "x">>, <<"r", "b", "x">>}}

OnScreen(st) == {st.rendered[i] : i \in 1 .. Len(st.rendered)}

Init ==
    /\ fs = InitFs
    /\ \E idx \in InitIndexes, sel \in InitSelections :
         /\ sel \subseteq OnScreen(InitState(idx, {}))
         /\ state = InitState(idx, sel)
    /\ last = Call("init", None)
    /\ steps = 0
    /\ pending = {}

\* ------------------------------------------------------------- view commands
\* the folder added to index, never taken out
primary_index_expand(st, node) == st.index \cup {node.path}

\* index = state.index ^ paths
primary_index(st, node) == SymDiff(st.index, {node.path})

c_primary ==
    /\ steps < MaxSteps
    /\ \E row \in Rows(state) :
         LET node == _index(state, row)
             paths == {node.path}
             idx == primary_index(state, node)
         IN  IF node # None /\ node.mode = "dir"
             THEN /\ state' = forward(state, fs, [index |-> idx, paths |-> paths])
                  /\ last' = [Call("primary", node) EXCEPT
                                !.forwarded = TRUE, !.paths = paths]
             ELSE /\ state' = state
                  /\ last' = Call("primary", node)
    /\ steps' = steps + 1
    /\ UNCHANGED pending
    /\ UNCHANGED fs

c_collapse ==
    /\ steps < MaxSteps
    /\ \E row \in Rows(state) :
         LET node == _index(state, row)
             paths == {i \in state.index : is_parent(node.path, i)}
             idx == state.index \ paths
         IN  IF node # None /\ node.mode = "dir"
             THEN /\ state' = forward(state, fs, [index |-> idx, paths |-> paths])
                  /\ last' = [Call("collapse", node) EXCEPT
                                !.forwarded = TRUE, !.paths = paths]
             ELSE /\ state' = state
                  /\ last' = Call("collapse", node)
    /\ steps' = steps + 1
    /\ UNCHANGED pending
    /\ UNCHANGED fs

c_refresh ==
    /\ steps < MaxSteps
    /\ state' = forward(state, fs, [paths |-> {Root}])
    /\ last' = [Call("refresh", None) EXCEPT !.forwarded = TRUE, !.paths = {Root}]
    /\ steps' = steps + 1
    /\ UNCHANGED pending
    /\ UNCHANGED fs

\* hidden entries switched on, whatever the flag was
hidden_toggle_on(st, f) == forward(st, f, [show_hidden |-> TRUE])

\* new_state = forward(state, settings=settings, show_hidden=not state.show_hidden)
hidden_toggle(st, f) == forward(st, f, [show_hidden |-> ~ st.show_hidden])

c_hidden ==
    /\ steps < MaxSteps
    /\ state' = hidden_toggle(state, fs)
    /\ last' = [Call("hidden", None) EXCEPT !.forwarded = TRUE]
    /\ steps' = steps + 1
    /\ UNCHANGED pending
    /\ UNCHANGED fs

c_follow ==
    /\ steps < MaxSteps
    /\ state' = forward(state, fs, [follow |-> ~ state.follow])
    /\ last' = [Call("follow", None) EXCEPT !.forwarded = TRUE]
    /\ steps' = steps + 1
    /\ UNCHANGED pending
    /\ UNCHANGED fs

c_clear ==
    /\ steps < MaxSteps
    /\ state' = forward(state, fs, [selection |-> {}])
    /\ last' = [Call("clear", None) EXCEPT !.forwarded = TRUE]
    /\ steps' = steps + 1
    /\ UNCHANGED pending
    /\ UNCHANGED fs

\* _indices: the nodes of the rows between the visual marks (1-based, both
\* included), or the node of the cursor row; a row with no node yields nothing.
_indices(st, is_visual, r1, r2, row) ==
    IF is_visual
    THEN {index(st, r) : r \in {k \in (r1 - 1) .. (r2 - 1) : index(st, k) # None}}
    ELSE {index(st, r) : r \in {k \in {row} : index(st, k) # None}}

\* the rows added to the selection, none taken out
select_selection_add(st, nodes) == st.selection \cup {n.path : n \in nodes}

\* selection = state.selection ^ {n.path for n in nodes}
select_selection(st, nodes) == SymDiff(st.selection, {n.path : n \in nodes})

c_select ==
    /\ steps < MaxSteps
    /\ \E is_visual \in BOOLEAN, r1, r2 \in 1 .. (Len(state.rendered) + 1) :
         /\ r1 <= r2
         /\ ~ is_visual => r1 = r2
         /\ LET row == r1 - 1
                rows == IF is_visual THEN (r1 - 1) .. (r2 - 1) ELSE {row}
                nodes == _indices(state, is_visual, r1, r2, row)
                selection == select_selection(state, nodes)
            IN  /\ Cardinality(selection) <= MaxSel
                /\ IF is_visual \/ nodes # {}
                   THEN /\ state' = forward(state, fs, [selection |-> selection])
                        /\ last' = [Call("select", _index(state, row)) EXCEPT
                                      !.forwarded = TRUE, !.rows = rows]
                   ELSE /\ state' = state
                        /\ last' = [Call("select", None) EXCEPT !.rows = rows]
    /\ steps' = steps + 1
    /\ UNCHANGED pending
    /\ UNCHANGED fs

\* ------------------------------------------------------------- c_new
\* the directory the new entry goes under
new_parent(node) == IF is_dir(node) THEN node.path ELSE dirname(node.path)

new_refused(f, name) == exists(f, name)

new_index(st, name) == st.index \cup ancestors(name)

new_paths(parent, name) == {parent}

\* How new(name) may end: done, or raised with nothing done, or raised after
\* the directories on the way were made.
NewOutcomes(f, name, kind) ==
    (IF CanNew(f, name)
     THEN {[fs |-> new(f, name, kind), raised |-> FALSE]} ELSE {})
    \cup {[fs |-> f, raised |-> TRUE]}
    \cup (IF CanMakeDirs(f, dirname(name))
          THEN {[fs |-> MakeDirs(f, dirname(name)), raised |-> TRUE]} ELSE {})

c_new ==
    /\ steps < MaxSteps
    /\ \E row \in Rows(state), input \in NewInputs :
         LET node == _index(state, row)
             parent == new_parent(node)
             name == join(parent, input.child)
             kind == input.kind
         IN  IF node = None
             THEN /\ state' = state
                  /\ fs' = fs
                  /\ last' = Call("new", node)
             ELSE IF new_refused(fs, name)
             THEN /\ state' = state
                  /\ fs' = fs
                  /\ last' = [Call("new", node) EXCEPT
                                !.target = name, !.printed = "exists"]
             ELSE /\ Len(name) <= MaxDepth
                  /\ \E out \in NewOutcomes(fs, name, kind) :
                       LET idx == new_index(state, name)
                           paths == new_paths(parent, name)
                       IN  /\ fs' = out.fs
                           /\ state' = forward(state, out.fs,
                                               [index |-> idx, paths |-> paths])
                           /\ last' = [Call("new", node) EXCEPT
                                         !.target = name,
                                         !.action_raised = out.raised,
                                         !.propagated = ReturnInFinally(out.raised),
                                         !.forwarded = TRUE,
                                         !.paths = paths]
    /\ steps' = steps + 1
    /\ UNCHANGED pending

\* ------------------------------------------------------------- c_rename
\* rename_refused with isfile in place of exists
rename_refused_isfile(f, new_name) == new_name \in DOMAIN f /\ f[new_name] = "file"

rename_refused(f, new_name) == exists(f, new_name)

rename_paths(parent, new_parent_) ==
    {parent, new_parent_} \cup ancestors(new_parent_)

RenameOutcomes(f, prev_name, new_name) ==
    (IF CanRename(f, prev_name, new_name)
     THEN {[fs |-> rename(f, prev_name, new_name), raised |-> FALSE]} ELSE {})
    \cup {[fs |-> f, raised |-> TRUE]}
    \cup (IF CanMakeDirs(f, dirname(new_name))
          THEN {[fs |-> MakeDirs(f, dirname(new_name)), raised |-> TRUE]} ELSE {})

c_rename ==
    /\ steps < MaxSteps
    /\ \E row \in Rows(state), child \in RenameInputs :
         LET node == _index(state, row)
             prev_name == node.path
             parent == Root
             new_name == join(parent, child)
             new_parent_ == dirname(new_name)
         IN  IF node = None
             THEN /\ state' = state
                  /\ fs' = fs
                  /\ last' = Call("rename", node)
             ELSE IF rename_refused(fs, new_name)
             THEN /\ state' = state
                  /\ fs' = fs
                  /\ last' = [Call("rename", node) EXCEPT
                                !.target = new_name, !.printed = "exists"]
             ELSE /\ Len(new_name) + Height(fs, prev_name) <= MaxDepth
                  /\ \E out \in RenameOutcomes(fs, prev_name, new_name) :
                       LET paths == rename_paths(parent, new_parent_)
                           idx == state.index \cup paths
                       IN  /\ fs' = out.fs
                           /\ state' = forward(state, out.fs,
                                               [index |-> idx, paths |-> paths])
                           /\ last' = [Call("rename", node) EXCEPT
                                         !.target = new_name,
                                         !.action_raised = out.raised,
                                         !.propagated = ReturnInFinally(out.raised),
                                         !.forwarded = TRUE,
                                         !.paths = paths,
                                         !.kill_called = TRUE,
                                         !.killed = {prev_name},
                                         !.events = FinallyBlock]
    /\ steps' = steps + 1
    /\ UNCHANGED pending

\* ------------------------------------------------------------- c_delete
\* state.selection or ({node.path} if node else set())
delete_selection(st, node) ==
    IF st.selection # {} THEN st.selection
    ELSE IF node # None THEN {node.path} ELSE {}

\* the selection handed to remove as it is
delete_unified_raw(selection) == selection

delete_unified(selection) == unify(selection)

\* any answer but No taken as Yes
delete_confirmed_not_no(ans) == ans # 2

delete_confirmed(ans) == ans = 1

delete_paths(unified) == {dirname(path) : path \in unified}

\* How remove(unified) may end: every path removed, or raised (on a path that
\* is gone, or on an I/O error) after some of them were removed.
RemoveOutcomes(f, unified) ==
    {[removed |-> done, raised |-> done # unified] :
        done \in SUBSET (unified \cap DOMAIN f)}

RECURSIVE RemoveAll(_, _)
RemoveAll(f, done) ==
    IF done = {} THEN f
    ELSE LET p == CHOOSE q \in done : TRUE
         IN  RemoveAll(RemoveTree(f, p), done \ {p})

c_delete ==
    /\ steps < MaxSteps
    /\ \E row \in Rows(state), ans \in Answers :
         LET node == _index(state, row)
             selection == delete_selection(state, node)
             unified == delete_unified(selection)
         IN  IF selection = {}
             THEN /\ ans = 0
                  /\ state' = state
                  /\ fs' = fs
                  /\ last' = Call("delete", node)
             ELSE IF ~ delete_confirmed(ans)
             THEN /\ state' = state
                  /\ fs' = fs
                  /\ last' = [Call("delete", node) EXCEPT
                                !.sel = selection, !.prompted = TRUE, !.ans = ans]
             ELSE \E out \in RemoveOutcomes(fs, unified) :
                       LET paths == delete_paths(unified)
                           after == RemoveAll(fs, out.removed)
                       IN  /\ fs' = after
                           /\ state' = forward(state, after, [paths |-> paths])
                           /\ last' = [Call("delete", node) EXCEPT
                                         !.sel = selection,
                                         !.prompted = TRUE, !.ans = ans,
                                         !.batch = unified,
                                         !.removed = out.removed,
                                         !.action_raised = out.raised,
                                         !.propagated = ReturnInFinally(out.raised),
                                         !.forwarded = TRUE,
                                         !.paths = paths,
                                         !.kill_called = TRUE,
                                         !.killed = selection,
                                         !.events = FinallyBlock]
    /\ steps' = steps + 1
    /\ UNCHANGED pending

\* c_delete as far as `await remove(unified)`: the user has answered Yes and
\* the call is suspended, holding the snapshot it was given.
c_delete_await ==
    /\ steps < MaxSteps
    /\ \E row \in Rows(state) :
         LET node == _index(state, row)
             selection == delete_selection(state, node)
             unified == delete_unified(selection)
         IN  /\ selection # {}
             /\ pending' = {[state |-> state, node |-> node,
                             selection |-> selection, unified |-> unified]}
    /\ steps' = steps + 1
    /\ UNCHANGED <<fs, state, last>>

\* c_delete from the return of remove on: the finally block builds the new
\* snapshot from the state the call was given, and returns it.
c_delete_resume ==
    /\ \E call \in pending :
         \E out \in RemoveOutcomes(fs, call.unified) :
            LET paths == delete_paths(call.unified)
                after == RemoveAll(fs, out.removed)
            IN  /\ fs' = after
                /\ state' = forward(call.state, after, [paths |-> paths])
                /\ last' = [Call("delete", call.node) EXCEPT
                              !.sel = call.selection,
                              !.prompted = TRUE, !.ans = 1,
                              !.batch = call.unified,
                              !.removed = out.removed,
                              !.action_raised = out.raised,
                              !.propagated = ReturnInFinally(out.raised),
                              !.forwarded = TRUE,
                              !.paths = paths,
                              !.kill_called = TRUE,
                              !.killed = call.selection,
                              !.awaited = TRUE,
                              !.events = FinallyBlock]
    /\ pending' = {}
    /\ UNCHANGED steps

\* ------------------------------------------------------------- move and copy
\* the destination always under the target's own path
_find_dest_under_node(src, node) == join(node.path, <<basename(src)>>)

_find_dest(src, node) ==
    LET name == basename(src)
        parent == IF is_dir(node) THEN node.path ELSE dirname(node.path)
    IN  join(parent, <<name>>)

\* the plan {src: dest}, as a set of <<src, dest>> pairs
operations(selection, node) == {<<src, _find_dest(src, node)>> : src \in selection}

\* pre_existing with isfile in place of exists
pre_existing_isfile(f, ops) ==
    {op \in ops : op[2] \in DOMAIN f /\ f[op[2]] = "file"}

pre_existing(f, ops) == {op \in ops : exists(f, op[2])}

operation_paths(ops) == {op[2] : op \in ops} \cup {dirname(op[1]) : op \in ops}

Transfer(name, f, src, dst) ==
    IF name = "Cut" THEN cut(f, src, dst) ELSE copy(f, src, dst)

\* for src, dest in operations.items(): action(src, dest)
\* The items run one after the other in the plan's (arbitrary) order; the
\* loop ends when all are done or when one raises (because the action cannot
\* succeed, or on an I/O error), the items before it staying applied.
\* hit collects the items whose destination existed when their action was
\* called.
RECURSIVE RunItems(_, _, _, _, _)
RunItems(name, f, todo, applied, hit) ==
    IF todo = {}
    THEN {[fs |-> f, applied |-> applied, hit |-> hit, raised |-> FALSE]}
    ELSE UNION {LET met == IF exists(f, op[2]) THEN hit \cup {op} ELSE hit
                IN  {[fs |-> f, applied |-> applied, hit |-> met, raised |-> TRUE]}
                    \cup (IF CanTransfer(f, op[1], op[2])
                          THEN RunItems(name, Transfer(name, f, op[1], op[2]),
                                        todo \ {op}, applied \cup {op}, met)
                          ELSE {}) : op \in todo}

\* RunBatch as a transaction: a batch that raises leaves the filesystem as it was.
RunBatch_rollback(name, f, ops) ==
    {[fs |-> IF out.raised THEN f ELSE out.fs,
      applied |-> out.applied, hit |-> out.hit, raised |-> out.raised] :
        out \in RunItems(name, f, ops, {}, {})}

RunBatch(name, f, ops) == RunItems(name, f, ops, {}, {})

\* no item of the plan may create a path longer than MaxDepth
PlanFits(f, ops) == \A op \in ops : Len(op[2]) + Height(f, op[1]) <= MaxDepth

_operation(name) ==
    /\ steps < MaxSteps
    /\ \E row \in Rows(state) :
         LET node == _index(state, row)
             selection == state.selection
             ops == operations(selection, node)
             conflicts == pre_existing(fs, ops)
         IN  IF selection = {} \/ node = None
             THEN /\ state' = state
                  /\ fs' = fs
                  /\ last' = [Call(name, node) EXCEPT
                                !.sel = selection, !.printed = "nothing selected"]
             ELSE IF conflicts # {}
             THEN /\ state' = state
                  /\ fs' = fs
                  /\ last' = [Call(name, node) EXCEPT
                                !.sel = selection, !.batch = ops,
                                !.printed = "exist", !.conflicts = conflicts]
             ELSE /\ PlanFits(fs, ops)
                  /\ \E out \in RunBatch(name, fs, ops) :
                       LET paths == operation_paths(ops)
                           idx == state.index \cup paths
                       IN  /\ fs' = out.fs
                           /\ state' = forward(state, out.fs,
                                               [index |-> idx, paths |-> paths])
                           /\ last' = [Call(name, node) EXCEPT
                                         !.sel = selection, !.batch = ops,
                                         !.applied = out.applied,
                                         !.hit = out.hit,
                                         !.action_raised = out.raised,
                                         !.propagated = ReturnInFinally(out.raised),
                                         !.forwarded = TRUE,
                                         !.paths = paths,
                                         !.kill_called = TRUE,
                                         !.killed = selection,
                                         !.events = FinallyBlock]
    /\ steps' = steps + 1
    /\ UNCHANGED pending

c_cut == _operation("Cut")

c_copy == _operation("Copy")

\* ------------------------------------------------------------- specification
Next ==
    \/ c_primary
    \/ c_collapse
    \/ c_refresh
    \/ c_hidden
    \/ c_follow
    \/ c_new
    \/ c_rename
    \/ c_clear
    \/ c_select
    \/ c_delete
    \/ c_cut
    \/ c_copy

Spec == Init /\ [][Next]_vars

\* ------------------------------------------------------------- the dispatcher
\* commands taken up while a handler is suspended
Serialized_interleaved == TRUE

\* The editor delivers one command at a time: a command is taken up only when
\* no handler call is suspended, so a handler's snapshot is published before
\* the next command is processed.
Serialized == pending = {}

\* The commands with c_delete suspending at its await.
NextAwait ==
    \/ Serialized /\ Next
    \/ Serialized /\ c_delete_await
    \/ c_delete_resume

SpecAwait == Init /\ [][NextAwait]_vars

\* ------------------------------------------------------------- properties
IsOperation(call) == call.cmd \in {"Cut", "Copy"}

\* the destinations _operation computes from a selection and the cursor node
Planned(selection, node) == {<<src, _find_dest(src, node)>> : src \in selection}

\* C1: when move or copy finds at least one computed destination on disk, no
\* action is applied, the filesystem and the snapshot stay as they were, and
\* the reported conflicts are exactly the (source, destination) pairs whose
\* destination exists.
C1_ConflictRefusesAll ==
    [][(/\ IsOperation(last')
        /\ state.selection # {}
        /\ last'.node # None
        /\ \E op \in Planned(state.selection, last'.node) : exists(fs, op[2]))
       => (/\ fs' = fs
           /\ state' = state
           /\ ~ last'.forwarded
           /\ last'.applied = {}
           /\ last'.conflicts =
                {op \in Planned(state.selection, last'.node) : exists(fs, op[2])})]_vars

\* a refused move or copy in which only some of the destinations collide
C1_Witness ==
    /\ IsOperation(last)
    /\ last.conflicts # {}
    /\ last.conflicts # last.batch
    /\ last.printed = "exist"

\* C2: an error raised by a filesystem action during create, rename, delete,
\* move or copy reaches the caller of the handler.
C2_ErrorPropagates == last.action_raised => last.propagated

\* C3: when an action raises in the middle of a move or copy batch, the items
\* completed before it stay applied, and the handler still returns a snapshot
\* advanced with the invalidation set.
C3_PartialBatchKept ==
    (IsOperation(last) /\ last.action_raised)
    => (/\ \A op \in last.applied :
             /\ op[2] \in DOMAIN fs
             /\ last.cmd = "Cut" => op[1] \notin DOMAIN fs
             /\ last.cmd = "Copy" => op[1] \in DOMAIN fs
        /\ last.forwarded
        /\ last.paths # {}
        /\ last.paths \subseteq state.index)

\* a batch that raised after one item was done and before another
C3_Witness ==
    /\ IsOperation(last)
    /\ last.action_raised
    /\ last.applied # {}
    /\ last.applied # last.batch

\* C4: c_delete whose confirmation is answered anything but Yes removes
\* nothing, closes no buffer, and returns the snapshot it was given.
C4_DeleteCancelled ==
    [][(last'.cmd = "delete" /\ last'.prompted /\ last'.ans # 1)
       => (/\ fs' = fs
           /\ state' = state
           /\ last'.removed = {}
           /\ ~ last'.kill_called
           /\ ~ last'.forwarded)]_vars

\* the prompt dismissed without an answer
C4_Witness == last.cmd = "delete" /\ last.prompted /\ last.ans = 0

\* C5: the invalidation set of a conflict-free move or copy is the parents of
\* the sources together with the parents of the destinations (stated for the
\* batches in which no action raises).
C5_OperationInvalidation ==
    (IsOperation(last) /\ last.forwarded /\ ~ last.action_raised)
    => last.paths = {dirname(op[1]) : op \in last.batch}
                    \cup {dirname(op[2]) : op \in last.batch}

\* C6: c_new puts the parent directory and every directory between it and the
\* new entry into the invalidation set, and every ancestor of the new entry
\* into the expansion set (stated for the calls in which new does not raise).
C6_NewInvalidation ==
    (last.cmd = "new" /\ last.forwarded /\ ~ last.action_raised)
    => (/\ {a \in ancestors(last.target) :
              a = new_parent(last.node) \/ is_parent(new_parent(last.node), a)}
             \subseteq last.paths
        /\ ancestors(last.target) \subseteq state.index)

\* C7: c_rename from P to Q invalidates dirname(P) and dirname(Q) and asks for
\* the buffers of exactly P to be closed (stated for the calls in which rename
\* does not raise).
C7_RenameInvalidation ==
    (last.cmd = "rename" /\ last.forwarded /\ ~ last.action_raised)
    => (/\ dirname(last.node.path) \in last.paths
        /\ dirname(last.target) \in last.paths
        /\ last.kill_called
        /\ last.killed = {last.node.path})

\* C8: c_new and c_rename whose computed target exists create and rename
\* nothing, call no transition, and return the snapshot they were given.
C8_ExistingTargetRefused ==
    [][(/\ last'.cmd \in {"new", "rename"}
        /\ last'.node # None
        /\ exists(fs, last'.target))
       => (/\ fs' = fs
           /\ state' = state
           /\ ~ last'.forwarded
           /\ last'.paths = {}
           /\ ~ last'.action_raised)]_vars

\* c_new and c_rename each refused on a target that is a directory
C8_WitnessNew ==
    /\ last.cmd = "new"
    /\ last.printed = "exists"
    /\ last.target \in DOMAIN fs
    /\ fs[last.target] = "dir"

C8_Witness ==
    /\ last.cmd = "rename"
    /\ last.printed = "exists"
    /\ last.target \in DOMAIN fs
    /\ fs[last.target] = "dir"

\* C9: cut, copy and delete called with nothing selected and no node under the
\* cursor report a warning, apply nothing, ask nothing, and return the snapshot
\* they were given.
C9_NothingSelectedWarns ==
    (/\ last.cmd \in {"Cut", "Copy", "delete"}
     /\ last.sel = {}
     /\ last.node = None)
    => (/\ last.printed = "nothing selected"
        /\ ~ last.prompted
        /\ last.applied = {}
        /\ last.removed = {}
        /\ ~ last.forwarded)

\* C10: a confirmed c_delete hands remove exactly the topmost paths of T (the
\* selection, or the cursor's node when nothing is selected): none of them is
\* below another, remove deletes no other path and, unless it raises, all of
\* them, and the invalidation set is exactly their parent directories.
C10_DeleteBatch ==
    [][(last'.cmd = "delete" /\ last'.prompted /\ last'.ans = 1)
       => LET T == IF state.selection # {} THEN state.selection
                   ELSE {last'.node.path}
              top == {p \in T : ~ \E q \in T : is_parent(q, p)}
              gone == {q \in DOMAIN fs : \E p \in top : q = p \/ is_parent(p, q)}
          IN  /\ last'.batch = top
              /\ \A p, q \in last'.batch : ~ is_parent(p, q)
              /\ last'.removed \subseteq top
              /\ ~ last'.action_raised => DOMAIN fs' = DOMAIN fs \ gone
              /\ last'.paths = {dirname(p) : p \in top}]_vars

\* a confirmed delete of a directory selected together with an entry inside it
C10_Witness ==
    /\ last.cmd = "delete"
    /\ last.ans = 1
    /\ ~ last.action_raised
    /\ last.batch # {}
    /\ last.batch # last.sel
    /\ \A p \in last.batch : p \notin DOMAIN fs


\* C11: when c_delete, suspended at `await remove`, finishes, the snapshot it
\* publishes is the one forward derives from the snapshot that is current at
\* that moment, so that nothing published during the suspension is lost.
C11_PublishFromCurrent ==
    [][(pending # {} /\ pending' = {})
         => state' = forward(state, fs', [paths |-> last'.paths])]_vars

C11_Witness ==
    /\ pending = {}
    /\ last.cmd = "delete" /\ last.awaited /\ last.forwarded
    /\ last.removed # {}


\* the place of event e in the sequence of events of a call
Place(events, e) == CHOOSE i \in 1 .. Len(events) : events[i] = e

\* C12: in rename, delete and move/copy, kill_buffers is called only after
\* the handler has returned the new snapshot (which is when it becomes the
\* current one), never before.
C12_KillAfterPublish ==
    last.kill_called =>
        Place(last.events, "return") < Place(last.events, "kill_buffers")


C14_Destination ==
    (IsOperation(last) /\ last.sel # {} /\ last.node # None) =>
        /\ {op[1] : op \in last.batch} = last.sel
        /\ \A op \in last.batch :
             /\ op[2][Len(op[2])] = op[1][Len(op[1])]
             /\ SubSeq(op[2], 1, Len(op[2]) - 1)
                  = IF last.node.mode = "dir"
                    THEN last.node.path
                    ELSE SubSeq(last.node.path, 1, Len(last.node.path) - 1)
        /\ Cardinality(last.batch) = Cardinality(last.sel)

C14_Witness ==
    /\ IsOperation(last)
    /\ last.node.mode = "file"
    /\ last.applied # {}
    /\ \E op \in last.applied : op[2] # last.node.path


\* C15: every member of the expansion set (index) is the path of a
\* directory, in every snapshot a command returns; in particular no path
\* that is a plain file on disk is ever a member.
C15_IndexHoldsDirectories ==
    \A p \in state.index : ~ (p \in DOMAIN fs /\ fs[p] = "file")


\* C16: in a batch that passed the pre-check, every action is called with a
\* destination that does not exist at that moment, two sources of the same
\* base name from different folders included; nothing is overwritten.
C16_NoOverwrite ==
    (IsOperation(last) /\ last.conflicts = {}) => last.hit = {}


\* C17: every path in the selection is the path of an entry that exists; a
\* confirmed delete or a completed move leaves none of the paths it removed
\* or moved away in the selection of the snapshot it returns.
\* Stated for the snapshot returned by a delete or a move that did not raise.
C17_SelectionExists ==
    (last.cmd \in {"delete", "Cut"} /\ last.forwarded /\ ~ last.action_raised)
        => \A p \in state.selection : exists(fs, p)


\* C18: c_primary on a folder toggles that folder's membership of index and
\* no other (the new index is the old one with the folder's path put in if
\* it was out and taken out if it was in), selection, show_hidden and follow
\* staying; a second c_primary on the same folder gives back the index
\* before the first; on a file, or with no node under the cursor, the
\* snapshot is returned as it was.
C18_PrimaryToggles ==
    [][last'.cmd = "primary" =>
         IF last'.node # None /\ last'.node.mode = "dir"
         THEN /\ state'.index \ {last'.node.path} = state.index \ {last'.node.path}
              /\ last'.node.path \in state'.index <=> last'.node.path \notin state.index
              /\ state'.selection = state.selection
              /\ state'.show_hidden = state.show_hidden
              /\ state'.follow = state.follow
              /\ primary_index(state', last'.node) = state.index
         ELSE state' = state]_vars

\* a second c_primary has collapsed again the folder the first one expanded
C18_Witness ==
    /\ last.cmd = "primary" /\ last.forwarded
    /\ steps = 2
    /\ last.node.path = <<"r", "a">>
    /\ last.node.path \notin state.index
    /\ state.index = {Root}
    /\ <<"r", "a", "x">> \in DOMAIN state.root
    /\ state.selection # {}


\* C19: after c_collapse on a folder N, neither N nor any path below N is in
\* index, and every member of index outside N's subtree is kept; on a file
\* the snapshot is returned as it was.  Stated for the folders below the
\* root of the tree.
C19_CollapseSubtree ==
    [][(last'.cmd = "collapse" /\ last'.node.path # Root) =>
         IF last'.node # None /\ last'.node.mode = "dir"
         THEN LET N == last'.node.path
                  inside == {p \in state.index : p = N \/ is_parent(N, p)}
              IN  /\ state'.index \cap inside = {}
                  /\ state'.index = state.index \ inside
         ELSE state' = state]_vars


\* the paths shown on the given zero-based rows, rows past the last line
\* giving none
Picked(st, rows) ==
    {st.rendered[r + 1] : r \in {k \in rows : k < Len(st.rendered)}}

\* C20: c_select toggles the selection membership of exactly the paths on
\* the cursor row, or on the rows of the visual interval (rows past the last
\* line are skipped): they enter the selection if they were out and leave
\* it if they were in, the rest of the selection and index stay, and
\* c_select on the same rows again gives back the selection before.
\* c_clear returns the empty selection and leaves index as it was.
C20_SelectToggles ==
    [][/\ last'.cmd = "select" =>
            LET picked == Picked(state, last'.rows)
            IN  /\ state'.selection \ picked = state.selection \ picked
                /\ \A p \in picked :
                     p \in state'.selection <=> p \notin state.selection
                /\ state'.index = state.index
                /\ select_selection(state', {[path |-> p] : p \in picked})
                     = state.selection
       /\ last'.cmd = "clear" =>
            /\ state'.selection = {}
            /\ state'.index = state.index]_vars

\* a visual c_select over an interval that runs past the last line, taking
\* one path out of the selection and putting another in
C20_Witness ==
    /\ last.cmd = "select" /\ last.forwarded
    /\ \E r \in last.rows : r >= Len(state.rendered)
    /\ \E p \in Picked(state, last.rows) : p \notin state.selection
    /\ \E p \in Picked(state, last.rows) : p \in state.selection

====
